---- MODULE Spec2Model ----
(***************************************************************************)
(* Order placement and fulfillment workflow of the genzzone backend:      *)
(* orders/views.py (storefront requests), orders/admin.py (operator       *)
(* actions), orders/steadfast_service.py (courier adapter) and the rows   *)
(* of orders/models.py and products/models.py they read and write.        *)
(*                                                                         *)
(* Every request handler is split at its database accesses: each action   *)
(* below is one query (or one transaction) of a handler together with the *)
(* in-memory work that follows it, so that concurrent requests interleave *)
(* exactly where the database lets them.  A courier call and the          *)
(* order.save() that follows it are one action: the call itself touches   *)
(* no row.                                                                 *)
(***************************************************************************)
EXTENDS Integers, Sequences, FiniteSets, TLC

\* ---------------------------------------------------------------- bounds
NumProducts == 2
NumSessions == 1
NumShoppers == 2
NumWorkers == 2
InitStock == 2
MaxQty == 2
MaxRequests == 3
MaxDigits == 13
NumRows == 2

Products == 1..NumProducts
ProductIds == 0..NumProducts      \* 0: an id no Product row has
Sessions == 1..NumSessions
Workers == 1..NumWorkers
Quantities == 1..MaxQty
OrderIds == 1..MaxRequests         \* every order takes a request to place

\* ----------------------------------------------------------------- state
VARIABLES
    products,      \* Product rows: stock, regular_price, offer_price, is_active
    carts,         \* Cart rows: session_key -> id of its row (0: no row)
    cartItems,     \* CartItem rows: [id, cart, product, quantity]
    cartSeq,       \* last id given to a Cart row
    itemSeq,       \* last id given to a CartItem row
    orders,        \* Order rows, indexed by id
    orderItems,    \* OrderItem rows of each order: quantity and price per product
    consignments,  \* courier side: consignments created per invoice "ORD-{id}"
    req,           \* storefront request handlers (one per server worker)
    adm,           \* the operator's admin action
    last,          \* the response given by the request or action that ended last
    started,       \* requests and admin actions begun so far
    call,          \* the courier adapter's last call, taken by itself
    singletons     \* Notification and HeroImage rows, and the saves under way

vars == <<products, carts, cartItems, cartSeq, itemSeq, orders, orderItems,
          consignments, req, adm, last, started, call, singletons>>

db == <<products, carts, cartItems, orders, orderItems>>

NoLines == [p \in Products |-> 0]

RECURSIVE SumOver(_, _)
SumOver(f, S) ==
    IF S = {} THEN 0
    ELSE LET x == CHOOSE y \in S : TRUE IN f[x] + SumOver(f, S \ {x})

\* (a current price that takes the offer only when it is the lower one)
current_price_lower(product) ==
    IF product.offer_price # 0 /\ product.offer_price < product.regular_price
    THEN product.offer_price
    ELSE product.regular_price

\* Product.current_price: offer_price when it is truthy, else regular_price
\* (a NULL offer_price is 0 here).
current_price(product) ==
    IF product.offer_price # 0 THEN product.offer_price ELSE product.regular_price

\* (a stock column the database puts no constraint on)
StockCheckDropped(s) == TRUE

\* The CHECK ("stock" >= 0) that PositiveIntegerField puts on the column.
StockCheck(s) == s >= 0

\* (a decrement that takes the quantity twice)
DecrementTwice(s, q) == s - q - q

\* Product.objects.filter(id=...).update(stock=F('stock') - quantity)
DecrementStock(s, q) == s - q

\* Order.objects.create(..., status='pending', ...): a new row, fulfillment
\* fields at their defaults (NULL / '', both 0 here).
NewOrder(session_key, total_amount) ==
    [session_key |-> session_key, total_amount |-> total_amount,
     status |-> "pending", steadfast_consignment_id |-> 0,
     steadfast_tracking_code |-> 0, steadfast_status |-> 0]

\* ------------------------------------------------------------- the cart
\* cart.items.all(): the CartItem rows of a cart id
ItemsOf(cart) == {i \in cartItems : i.cart = cart}

\* the rows of a queryset as quantity per product (unique_together cart, product)
LinesOf(items) ==
    [p \in Products |->
        IF \E i \in items : i.product = p
        THEN (CHOOSE i \in items : i.product = p).quantity
        ELSE 0]

\* Cart.get_total(): sum of product.current_price * quantity over the rows
get_total(cart) ==
    LET l == LinesOf(ItemsOf(cart))
    IN SumOver([p \in Products |-> current_price(products[p]) * l[p]], Products)

\* ----------------------------------------------------------- the courier
\* What the provider (or the adapter before calling it) can answer.
Causes ==
    {"disabled", "invalid_phone", "http_error", "network_error",
     "provider_status", "no_consignment",
     "accepted", "accepted_no_id", "accepted_no_tracking", "malformed"}

Accepted(cause) == cause \in {"accepted", "accepted_no_id", "accepted_no_tracking"}

NoConsignment ==
    [present |-> FALSE, consignment_id |-> 0, tracking_code |-> 0, status |-> 0]

\* SteadfastService.create_order: the dict it returns; k tags the consignment
\* the provider created for this call.  A key the provider leaves out of the
\* consignment object is 0.
create_order(cause, k) ==
    CASE cause = "disabled" ->
            [status |-> "disabled", consignment |-> NoConsignment]
      [] cause \in {"invalid_phone", "http_error", "network_error"} ->
            [status |-> "error", consignment |-> NoConsignment]
      [] cause = "provider_status" ->
            [status |-> "400", consignment |-> NoConsignment]
      [] cause = "no_consignment" ->
            [status |-> "200", consignment |-> NoConsignment]
      [] cause = "accepted" ->
            [status |-> "200",
             consignment |-> [present |-> TRUE, consignment_id |-> k,
                              tracking_code |-> k, status |-> k]]
      [] cause = "accepted_no_id" ->
            [status |-> "200",
             consignment |-> [present |-> TRUE, consignment_id |-> 0,
                              tracking_code |-> k, status |-> k]]
      [] cause = "accepted_no_tracking" ->
            [status |-> "200",
             consignment |-> [present |-> TRUE, consignment_id |-> k,
                              tracking_code |-> 0, status |-> k]]

\* what a finished request remembers of the courier's answer: the adapter
\* returned before calling the provider, the call failed or was turned down,
\* the provider accepted, or the adapter raised
RespClass(cause) ==
    CASE cause \in {"disabled", "invalid_phone"} -> "skipped"
      [] cause \in {"http_error", "network_error", "provider_status",
                    "no_consignment"} -> "failed"
      [] Accepted(cause) -> "accepted"
      [] cause = "malformed" -> "raised"

\* (a success test that looks at the status alone)
IsSuccessStatusOnly(resp) == resp.status = "200"

\* steadfast_response.get('status') == 200 and steadfast_response.get('consignment')
IsSuccess(resp) == resp.status = "200" /\ resp.consignment.present

\* the three assignments from the consignment object
WriteBack(order, resp) ==
    [order EXCEPT !.steadfast_consignment_id = resp.consignment.consignment_id,
                  !.steadfast_tracking_code = resp.consignment.tracking_code,
                  !.steadfast_status = resp.consignment.status]

\* (an action that does not look at the consignment id)
NeverSent(order) == FALSE

\* if order.steadfast_consignment_id:
AlreadySent(order) == order.steadfast_consignment_id # 0

\* the courier creates a consignment for invoice ORD-{o} when it accepts
CourierAfter(o, cause) ==
    IF Accepted(cause)
    THEN [consignments EXCEPT ![o] = @ + 1]
    ELSE consignments

\* no call of the adapter yet
NoCall == [recipient_phone |-> <<>>, posted |-> FALSE, payload |-> <<>>, status |-> "none"]

\* ------------------------------------------- Notification and HeroImage
\* The two models whose save() keeps one row active.  A row is "absent"
\* until a save inserts it, and then "active" or "inactive" (its is_active).
SingletonModels == {"Notification", "HeroImage"}
Pks == 1..NumRows

\* no save() under way in a worker
IdleSave == [pc |-> "idle", pk |-> 0, is_active |-> FALSE]

\* empty tables
NoSingletons ==
    [m \in SingletonModels |->
        [rows |-> [pk \in Pks |-> "absent"],
         saving |-> [w \in Workers |-> IdleSave]]]

\* -------------------------------------------------------- request state
IdleReq ==
    [op |-> "none", pc |-> "idle", session |-> 1, cart |-> 0, item |-> 0,
     quantity |-> 0, lines |-> NoLines, unit |-> NoLines, total |-> 0,
     order |-> 0]

\* what a handler answered: its outcome, the class of the courier's answer and,
\* for an admin action, the order it was run on
Response(op, result, resp, order) ==
    [op |-> op, result |-> result, resp |-> resp, order |-> order]

IdleAdm ==
    [op |-> "none", pc |-> "idle", order |-> 0, copy |-> NewOrder(1, 0)]


\* a cart that earlier AddToCartView requests filled with one of every product
FullCart(cart) ==
    {[id |-> p, cart |-> cart, product |-> p, quantity |-> 1] : p \in Products}

\* no order has been placed yet; session 1 has either no cart or a filled one
Init ==
    /\ products = [p \in Products |->
                     [stock |-> InitStock, regular_price |-> 10,
                      offer_price |-> 0, is_active |-> TRUE]]
    /\ \/ /\ carts = [s \in Sessions |-> 0]
          /\ cartItems = {}
          /\ cartSeq = 0
          /\ itemSeq = 0
       \/ /\ carts = [s \in Sessions |-> IF s = 1 THEN 1 ELSE 0]
          /\ cartItems = FullCart(1)
          /\ cartSeq = 1
          /\ itemSeq = NumProducts
    /\ orders = <<>>
    /\ orderItems = <<>>
    /\ consignments = [o \in OrderIds |-> 0]
    /\ req = [w \in Workers |-> IdleReq]
    /\ adm = IdleAdm
    /\ last = Response("none", "none", "none", 0)
    /\ started = 0
    /\ call = NoCall
    /\ singletons = NoSingletons

Return(w, op, result, resp) ==
    /\ req' = [req EXCEPT ![w] = IdleReq]
    /\ last' = Response(op, result, resp, 0)

Continue(w, r) ==
    /\ req' = [req EXCEPT ![w] = r]
    /\ UNCHANGED last

AdmReturn(op, result, resp, order) ==
    /\ adm' = IdleAdm
    /\ last' = Response(op, result, resp, order)

AdmContinue(a) ==
    /\ adm' = a
    /\ UNCHANGED last

\* a new request or admin action begins
Begin == started < MaxRequests /\ started' = started + 1

\* the server hands a request to its first idle worker
Accept(w) ==
    /\ req[w].pc = "idle"
    /\ \A v \in Workers : v < w => req[v].pc # "idle"
    /\ Begin


\* ------------------------------------------- the order transaction
StockAfter(lines) ==
    [p \in Products |-> DecrementStock(products[p].stock, lines[p])]

CommitAllowed(lines) ==
    \A p \in Products : lines[p] > 0 => StockCheck(StockAfter(lines)[p])

\* (the writes of the block without the enclosing transaction: what was
\* written before the refused update stays)
CommitOrderNoRollback(w, next_pc) ==
    LET r == req[w]
        fits == [p \in Products |-> r.lines[p] > 0 /\ StockCheck(StockAfter(r.lines)[p])]
    IN /\ orders' = Append(orders, NewOrder(r.session, r.total))
       /\ orderItems' = Append(orderItems, [quantity |-> r.lines, price |-> r.unit])
       /\ products' = [p \in Products |->
                         IF fits[p]
                         THEN [products[p] EXCEPT !.stock = StockAfter(r.lines)[p]]
                         ELSE products[p]]
       /\ IF CommitAllowed(r.lines)
          THEN Continue(w, [r EXCEPT !.pc = next_pc, !.order = Len(orders) + 1])
          ELSE Return(w, r.op, "IntegrityError", "none")

\* with transaction.atomic(): Order.objects.create, OrderItem.objects.create
\* per line, Product...update(stock=F('stock') - quantity) per line.  The
\* update of a row whose new stock fails the column's CHECK raises
\* IntegrityError out of the block, which rolls the whole block back.
CommitOrder(w, next_pc) ==
    LET r == req[w]
    IN IF CommitAllowed(r.lines)
       THEN /\ orders' = Append(orders, NewOrder(r.session, r.total))
            /\ orderItems' = Append(orderItems, [quantity |-> r.lines, price |-> r.unit])
            /\ products' = [p \in Products |->
                              [products[p] EXCEPT !.stock = StockAfter(r.lines)[p]]]
            /\ Continue(w, [r EXCEPT !.pc = next_pc,
                                                   !.order = Len(orders) + 1])
       ELSE /\ Return(w, r.op, "IntegrityError", "none")
            /\ UNCHANGED <<orders, orderItems, products>>

\* (a chained dispatch that cancels the order the courier did not take)
ChainedSaveCancelling(w, cause) ==
    LET r == req[w]
        resp == create_order(cause, consignments[r.order] + 1)
        order == NewOrder(r.session, r.total)
    IN IF IsSuccess(resp)
       THEN orders' = [orders EXCEPT ![r.order] = WriteBack(order, resp)]
       ELSE orders' = [orders EXCEPT ![r.order] = [order EXCEPT !.status = "cancelled"]]

\* the dispatch chained to order creation: create_order, then on success the
\* three fields and order.save() of the instance made by Order.objects.create
\* (status still 'pending'); save() writes every column of the row.
ChainedSave(w, cause) ==
    LET r == req[w]
        resp == create_order(cause, consignments[r.order] + 1)
        order == NewOrder(r.session, r.total)
    IN IF IsSuccess(resp)
       THEN orders' = [orders EXCEPT ![r.order] = WriteBack(order, resp)]
       ELSE UNCHANGED orders

\* ------------------------------------------------ CreateOrderView.post
CreateOrderView_post_validate(w, s, id, quantity) ==
    /\ Accept(w)
    /\ IF id \notin Products \/ ~products[id].is_active
       THEN Return(w, "create", "NotFound", "none")
       ELSE IF products[id].stock <= 0
       THEN Return(w, "create", "OutOfStock", "none")
       ELSE IF quantity > products[id].stock
       THEN Return(w, "create", "InsufficientStock", "none")
       ELSE Continue(w, [IdleReq EXCEPT !.op = "create", !.pc = "commit", !.session = s,
                    !.lines = [NoLines EXCEPT ![id] = quantity],
                    !.unit = [NoLines EXCEPT ![id] = current_price(products[id])],
                    !.total = current_price(products[id]) * quantity])
    /\ UNCHANGED <<products, carts, cartItems, cartSeq, itemSeq, orders,
                   orderItems, consignments, adm, call, singletons>>

CreateOrderView_post_commit(w) ==
    /\ req[w].op = "create" /\ req[w].pc = "commit"
    /\ CommitOrder(w, "dispatch")
    /\ UNCHANGED <<carts, cartItems, cartSeq, itemSeq, consignments, adm, started, call, singletons>>

CreateOrderView_post_dispatch(w, cause) ==
    /\ req[w].op = "create" /\ req[w].pc = "dispatch"
    /\ IF cause = "malformed"
       THEN /\ Return(w, "create", "ServerError", "raised")
            /\ UNCHANGED <<orders, consignments>>
       ELSE /\ ChainedSave(w, cause)
            /\ consignments' = CourierAfter(req[w].order, cause)
            /\ Return(w, "create", "Created", RespClass(cause))
    /\ UNCHANGED <<products, carts, cartItems, cartSeq, itemSeq, orderItems, adm, started, call, singletons>>


\* --------------------------------------------- CheckoutFromCartView.post
\* Cart.objects.get(session_key=...) and cart_items.exists()
CheckoutFromCartView_post_get(w, s) ==
    /\ Accept(w)
    /\ IF carts[s] = 0 \/ ItemsOf(carts[s]) = {}
       THEN Return(w, "checkout", "CartEmpty", "none")
       ELSE Continue(w, [IdleReq EXCEPT !.op = "checkout", !.pc = "validate",
                                !.session = s, !.cart = carts[s]])
    /\ UNCHANGED <<products, carts, cartItems, cartSeq, itemSeq, orders,
                   orderItems, consignments, adm, call, singletons>>

\* for item in cart_items: the queryset is evaluated (and cached) here, and
\* item.product is fetched (and cached on the item) for every row
CheckoutFromCartView_post_validate(w) ==
    /\ req[w].op = "checkout" /\ req[w].pc = "validate"
    /\ LET lines == LinesOf(ItemsOf(req[w].cart))
       IN IF \E p \in Products : lines[p] > products[p].stock
          THEN Return(w, "checkout", "InsufficientStock", "none")
          ELSE Continue(w, [req[w] EXCEPT !.pc = "total", !.lines = lines,
                       !.unit = [p \in Products |->
                                   IF lines[p] > 0 THEN current_price(products[p]) ELSE 0]])
    /\ UNCHANGED <<products, carts, cartItems, cartSeq, itemSeq, orders,
                   orderItems, consignments, adm, started, call, singletons>>

\* total_amount = cart.get_total(): a new query of the cart's rows
CheckoutFromCartView_post_total(w) ==
    /\ req[w].op = "checkout" /\ req[w].pc = "total"
    /\ Continue(w, [req[w] EXCEPT !.pc = "commit", !.total = get_total(req[w].cart)])
    /\ UNCHANGED <<products, carts, cartItems, cartSeq, itemSeq, orders,
                   orderItems, consignments, adm, started, call, singletons>>

CheckoutFromCartView_post_commit(w) ==
    /\ req[w].op = "checkout" /\ req[w].pc = "commit"
    /\ CommitOrder(w, "dispatch")
    /\ UNCHANGED <<carts, cartItems, cartSeq, itemSeq, consignments, adm, started, call, singletons>>

\* the chained dispatch, then cart.items.all().delete() and cart.delete()
CheckoutFromCartView_post_dispatch(w, cause) ==
    /\ req[w].op = "checkout" /\ req[w].pc = "dispatch"
    /\ IF cause = "malformed"
       THEN /\ Return(w, "checkout", "ServerError", "raised")
            /\ UNCHANGED <<orders, consignments, carts, cartItems>>
       ELSE /\ ChainedSave(w, cause)
            /\ consignments' = CourierAfter(req[w].order, cause)
            /\ cartItems' = cartItems \ ItemsOf(req[w].cart)
            /\ carts' = [s \in DOMAIN carts |-> IF carts[s] = req[w].cart THEN 0 ELSE carts[s]]
            /\ Return(w, "checkout", "Created", RespClass(cause))
    /\ UNCHANGED <<products, cartSeq, itemSeq, orderItems, adm, started, call, singletons>>

\* ---------------------------------------------------- AddToCartView.post
\* Product.objects.get, Cart.objects.get_or_create, CartItem.objects.get_or_create
AddToCartView_post_get(w, s, id, quantity) ==
    /\ Accept(w)
    /\ IF id \notin Products \/ ~products[id].is_active
       THEN /\ Return(w, "add", "NotFound", "none")
            /\ UNCHANGED <<carts, cartItems, cartSeq, itemSeq>>
       ELSE IF products[id].stock <= 0
       THEN /\ Return(w, "add", "OutOfStock", "none")
            /\ UNCHANGED <<carts, cartItems, cartSeq, itemSeq>>
       ELSE
         LET created == carts[s] = 0
             cart == IF created THEN cartSeq + 1 ELSE carts[s]
             found == {i \in ItemsOf(cart) : i.product = id}
         IN /\ carts' = [carts EXCEPT ![s] = cart]
            /\ cartSeq' = IF created THEN cartSeq + 1 ELSE cartSeq
            /\ IF found # {}
               THEN LET cart_item == CHOOSE i \in found : TRUE
                        new_quantity == cart_item.quantity + quantity
                    IN /\ UNCHANGED <<cartItems, itemSeq>>
                       /\ IF new_quantity > products[id].stock
                          THEN Return(w, "add", "InsufficientStock", "none")
                          ELSE Continue(w, [IdleReq EXCEPT !.op = "add", !.pc = "save",
                                       !.session = s, !.cart = cart,
                                       !.item = cart_item.id,
                                       !.lines = [NoLines EXCEPT ![id] = new_quantity]])
               ELSE /\ cartItems' = cartItems \cup
                          {[id |-> itemSeq + 1, cart |-> cart, product |-> id,
                            quantity |-> quantity]}
                    /\ itemSeq' = itemSeq + 1
                    /\ IF quantity > products[id].stock
                       THEN Continue(w, [IdleReq EXCEPT !.op = "add", !.pc = "delete",
                                    !.session = s, !.cart = cart, !.item = itemSeq + 1])
                       ELSE Return(w, "add", "Added", "none")
    /\ UNCHANGED <<products, orders, orderItems, consignments, adm, call, singletons>>

\* (a save whose INSERT no unique_together constraint stands against)
AddToCartView_post_save_unconstrained(w) ==
    /\ req[w].op = "add" /\ req[w].pc = "save"
    /\ LET r == req[w]
           id == CHOOSE p \in Products : r.lines[p] > 0
           row == [id |-> r.item, cart |-> r.cart, product |-> id,
                   quantity |-> r.lines[id]]
           old == {i \in cartItems : i.id = r.item}
       IN /\ cartItems' = (cartItems \ old) \cup {row}
          /\ Return(w, "add", "Added", "none")
    /\ UNCHANGED <<products, carts, cartSeq, itemSeq, orders, orderItems,
                   consignments, adm, started, call, singletons>>

\* cart_item.quantity = new_quantity; cart_item.save(): an UPDATE of the row
\* with this id, or, when no such row is left, an INSERT of it, which the
\* foreign key to the cart and unique_together (cart, product) can refuse
AddToCartView_post_save(w) ==
    /\ req[w].op = "add" /\ req[w].pc = "save"
    /\ LET r == req[w]
           id == CHOOSE p \in Products : r.lines[p] > 0
           row == [id |-> r.item, cart |-> r.cart, product |-> id,
                   quantity |-> r.lines[id]]
           old == {i \in cartItems : i.id = r.item}
       IN IF old # {}
          THEN /\ cartItems' = (cartItems \ old) \cup {row}
               /\ Return(w, "add", "Added", "none")
          ELSE IF (\A s \in DOMAIN carts : carts[s] # r.cart)
                  \/ (\E i \in ItemsOf(r.cart) : i.product = id)
          THEN /\ UNCHANGED cartItems
               /\ Return(w, "add", "IntegrityError", "none")
          ELSE /\ cartItems' = cartItems \cup {row}
               /\ Return(w, "add", "Added", "none")
    /\ UNCHANGED <<products, carts, cartSeq, itemSeq, orders, orderItems,
                   consignments, adm, started, call, singletons>>

\* cart_item.delete() of the row just created with more than the stock
AddToCartView_post_delete(w) ==
    /\ req[w].op = "add" /\ req[w].pc = "delete"
    /\ cartItems' = {i \in cartItems : i.id # req[w].item}
    /\ Return(w, "add", "InsufficientStock", "none")
    /\ UNCHANGED <<products, carts, cartSeq, itemSeq, orders, orderItems,
                   consignments, adm, started, call, singletons>>

\* --------------------------------------------------------- CartView.delete
CartView_delete(w, s) ==
    /\ Accept(w)
    /\ IF carts[s] = 0
       THEN /\ Return(w, "clear", "NotFound", "none")
            /\ UNCHANGED <<carts, cartItems>>
       ELSE /\ cartItems' = cartItems \ ItemsOf(carts[s])
            /\ carts' = [carts EXCEPT ![s] = 0]
            /\ Return(w, "clear", "Cleared", "none")
    /\ UNCHANGED <<products, cartSeq, itemSeq, orders, orderItems, consignments, adm, call, singletons>>


\* ------------------------------------------------------------ CartView.get
\* Cart.objects.get_or_create(session_key=...)
CartView_get(w, s) ==
    /\ Accept(w)
    /\ IF carts[s] = 0
       THEN /\ carts' = [carts EXCEPT ![s] = cartSeq + 1]
            /\ cartSeq' = cartSeq + 1
       ELSE UNCHANGED <<carts, cartSeq>>
    /\ Return(w, "view", "Shown", "none")
    /\ UNCHANGED <<products, cartItems, itemSeq, orders, orderItems, consignments, adm, call, singletons>>

\* ------------------------------------------------- UpdateCartItemView.put
\* Cart.objects.get, CartItem.objects.get(id=item_id, cart=cart), and the
\* check of the quantity against cart_item.product.stock
UpdateCartItemView_put_get(w, s, item_id, quantity) ==
    /\ Accept(w)
    /\ LET found == IF carts[s] = 0 THEN {}
                    ELSE {i \in ItemsOf(carts[s]) : i.id = item_id}
       IN IF found = {}
          THEN Return(w, "update", "NotFound", "none")
          ELSE LET cart_item == CHOOSE i \in found : TRUE
               IN IF quantity > products[cart_item.product].stock
                  THEN Return(w, "update", "InsufficientStock", "none")
                  ELSE Continue(w, [IdleReq EXCEPT !.op = "update", !.pc = "save",
                               !.session = s, !.cart = carts[s], !.item = item_id,
                               !.lines = [NoLines EXCEPT ![cart_item.product] = quantity]])
    /\ UNCHANGED <<products, carts, cartItems, cartSeq, itemSeq, orders,
                   orderItems, consignments, adm, call, singletons>>

\* cart_item.quantity = quantity; cart_item.save(): as the save of
\* AddToCartView.post, an UPDATE of the row or, when it is gone, an INSERT
UpdateCartItemView_put_save(w) ==
    /\ req[w].op = "update" /\ req[w].pc = "save"
    /\ LET r == req[w]
           id == CHOOSE p \in Products : r.lines[p] > 0
           row == [id |-> r.item, cart |-> r.cart, product |-> id,
                   quantity |-> r.lines[id]]
           old == {i \in cartItems : i.id = r.item}
       IN IF old # {}
          THEN /\ cartItems' = (cartItems \ old) \cup {row}
               /\ Return(w, "update", "Updated", "none")
          ELSE IF (\A s \in DOMAIN carts : carts[s] # r.cart)
                  \/ (\E i \in ItemsOf(r.cart) : i.product = id)
          THEN /\ UNCHANGED cartItems
               /\ Return(w, "update", "IntegrityError", "none")
          ELSE /\ cartItems' = cartItems \cup {row}
               /\ Return(w, "update", "Updated", "none")
    /\ UNCHANGED <<products, carts, cartSeq, itemSeq, orders, orderItems,
                   consignments, adm, started, call, singletons>>

\* --------------------------------------------- RemoveCartItemView.delete
\* Cart.objects.get, CartItem.objects.get(id=item_id, cart=cart), delete()
RemoveCartItemView_delete(w, s, item_id) ==
    /\ Accept(w)
    /\ LET found == IF carts[s] = 0 THEN {}
                    ELSE {i \in ItemsOf(carts[s]) : i.id = item_id}
       IN IF found = {}
          THEN /\ UNCHANGED cartItems
               /\ Return(w, "remove", "NotFound", "none")
          ELSE /\ cartItems' = cartItems \ found
               /\ Return(w, "remove", "Removed", "none")
    /\ UNCHANGED <<products, carts, cartSeq, itemSeq, orders, orderItems,
                   consignments, adm, call, singletons>>


\* -------------------------------------------------------- orders/utils.py
\* The cart functions of utils.py take the Cart row of a session (as
\* get_cart gives it); nothing in the repository calls them, so each is one
\* call made on behalf of a request, from its first query to its last.

\* (an add_to_cart that checks the stock against the added quantity only)
add_to_cart_unchecked(w, s, product_id, quantity) ==
    /\ Accept(w)
    /\ carts[s] # 0
    /\ IF product_id \notin Products \/ ~products[product_id].is_active
       THEN /\ Return(w, "add_to_cart", "NotFound", "none")
            /\ UNCHANGED <<cartItems, itemSeq>>
       ELSE IF products[product_id].stock < quantity
       THEN /\ Return(w, "add_to_cart", "InsufficientStock", "none")
            /\ UNCHANGED <<cartItems, itemSeq>>
       ELSE
         LET found == {i \in ItemsOf(carts[s]) : i.product = product_id}
         IN IF found = {}
            THEN /\ cartItems' = cartItems \cup
                       {[id |-> itemSeq + 1, cart |-> carts[s],
                         product |-> product_id, quantity |-> quantity]}
                 /\ itemSeq' = itemSeq + 1
                 /\ Return(w, "add_to_cart", "Added", "none")
            ELSE LET cart_item == CHOOSE i \in found : TRUE
                 IN /\ UNCHANGED itemSeq
                    /\ cartItems' = (cartItems \ found) \cup
                          {[cart_item EXCEPT !.quantity = cart_item.quantity + quantity]}
                    /\ Return(w, "add_to_cart", "Added", "none")
    /\ UNCHANGED <<products, carts, cartSeq, orders, orderItems, consignments, adm, call, singletons>>

\* add_to_cart(cart, product_id, quantity)
add_to_cart(w, s, product_id, quantity) ==
    /\ Accept(w)
    /\ carts[s] # 0
    /\ IF product_id \notin Products \/ ~products[product_id].is_active
       THEN /\ Return(w, "add_to_cart", "NotFound", "none")
            /\ UNCHANGED <<cartItems, itemSeq>>
       ELSE IF products[product_id].stock < quantity
       THEN /\ Return(w, "add_to_cart", "InsufficientStock", "none")
            /\ UNCHANGED <<cartItems, itemSeq>>
       ELSE
         LET found == {i \in ItemsOf(carts[s]) : i.product = product_id}
         IN IF found = {}
            THEN /\ cartItems' = cartItems \cup
                       {[id |-> itemSeq + 1, cart |-> carts[s],
                         product |-> product_id, quantity |-> quantity]}
                 /\ itemSeq' = itemSeq + 1
                 /\ Return(w, "add_to_cart", "Added", "none")
            ELSE LET cart_item == CHOOSE i \in found : TRUE
                     new_quantity == cart_item.quantity + quantity
                 IN /\ UNCHANGED itemSeq
                    /\ IF new_quantity > products[product_id].stock
                       THEN /\ UNCHANGED cartItems
                            /\ Return(w, "add_to_cart", "InsufficientStock", "none")
                       ELSE /\ cartItems' = (cartItems \ found) \cup
                                  {[cart_item EXCEPT !.quantity = new_quantity]}
                            /\ Return(w, "add_to_cart", "Added", "none")
    /\ UNCHANGED <<products, carts, cartSeq, orders, orderItems, consignments, adm, call, singletons>>

\* (an update_cart_item that looks the row up by its id alone)
update_cart_item_any_cart(w, s, cart_item_id, quantity) ==
    /\ Accept(w)
    /\ carts[s] # 0
    /\ LET found == {i \in cartItems : i.id = cart_item_id}
       IN IF found = {}
          THEN /\ UNCHANGED cartItems
               /\ Return(w, "update_cart_item", "NotFound", "none")
          ELSE LET cart_item == CHOOSE i \in found : TRUE
               IN IF quantity > products[cart_item.product].stock
                  THEN /\ UNCHANGED cartItems
                       /\ Return(w, "update_cart_item", "InsufficientStock", "none")
                  ELSE /\ cartItems' = (cartItems \ found) \cup
                             {[cart_item EXCEPT !.quantity = quantity]}
                       /\ Return(w, "update_cart_item", "Updated", "none")
    /\ UNCHANGED <<products, carts, cartSeq, itemSeq, orders, orderItems,
                   consignments, adm, call, singletons>>

\* update_cart_item(cart, cart_item_id, quantity)
update_cart_item(w, s, cart_item_id, quantity) ==
    /\ Accept(w)
    /\ carts[s] # 0
    /\ LET found == {i \in ItemsOf(carts[s]) : i.id = cart_item_id}
       IN IF found = {}
          THEN /\ UNCHANGED cartItems
               /\ Return(w, "update_cart_item", "NotFound", "none")
          ELSE LET cart_item == CHOOSE i \in found : TRUE
               IN IF quantity > products[cart_item.product].stock
                  THEN /\ UNCHANGED cartItems
                       /\ Return(w, "update_cart_item", "InsufficientStock", "none")
                  ELSE /\ cartItems' = (cartItems \ found) \cup
                             {[cart_item EXCEPT !.quantity = quantity]}
                       /\ Return(w, "update_cart_item", "Updated", "none")
    /\ UNCHANGED <<products, carts, cartSeq, itemSeq, orders, orderItems,
                   consignments, adm, call, singletons>>

\* (a remove_from_cart that lets CartItem.DoesNotExist out to its caller)
remove_from_cart_raising(w, s, cart_item_id) ==
    /\ Accept(w)
    /\ carts[s] # 0
    /\ LET found == {i \in ItemsOf(carts[s]) : i.id = cart_item_id}
       IN IF found = {}
          THEN /\ UNCHANGED cartItems
               /\ Return(w, "remove_from_cart", "DoesNotExist", "error")
          ELSE /\ cartItems' = cartItems \ found
               /\ Return(w, "remove_from_cart", "True", "none")
    /\ UNCHANGED <<products, carts, cartSeq, itemSeq, orders, orderItems,
                   consignments, adm, call, singletons>>

\* remove_from_cart(cart, cart_item_id): True, or False when there is no such row
remove_from_cart(w, s, cart_item_id) ==
    /\ Accept(w)
    /\ carts[s] # 0
    /\ LET found == {i \in ItemsOf(carts[s]) : i.id = cart_item_id}
       IN IF found = {}
          THEN /\ UNCHANGED cartItems
               /\ Return(w, "remove_from_cart", "False", "none")
          ELSE /\ cartItems' = cartItems \ found
               /\ Return(w, "remove_from_cart", "True", "none")
    /\ UNCHANGED <<products, carts, cartSeq, itemSeq, orders, orderItems,
                   consignments, adm, call, singletons>>

\* clear_cart(cart): cart.items.all().delete(); the Cart row stays
clear_cart(w, s) ==
    /\ Accept(w)
    /\ carts[s] # 0
    /\ cartItems' = cartItems \ ItemsOf(carts[s])
    /\ Return(w, "clear_cart", "Cleared", "none")
    /\ UNCHANGED <<products, carts, cartSeq, itemSeq, orders, orderItems,
                   consignments, adm, call, singletons>>


\* ------------------------------------------------------------ OrderAdmin
\* An action runs on a queryset of one order.  "for order in queryset" loads
\* the row; the checks, the courier call and order.save() then work on that
\* loaded instance.

\* order.save() after a successful create_order: the three fields and
\* status = 'sent', every column written from the loaded instance
AdminDispatch(cause) ==
    LET o == adm.order
        resp == create_order(cause, consignments[o] + 1)
    IN /\ adm.pc = "call"
       /\ IF cause = "malformed"
          THEN /\ AdmReturn(adm.op, "ServerError", "raised", o)
               /\ UNCHANGED <<orders, consignments>>
          ELSE /\ consignments' = CourierAfter(o, cause)
               /\ IF IsSuccess(resp)
                  THEN /\ orders' = [orders EXCEPT ![o] =
                              [WriteBack(adm.copy, resp) EXCEPT !.status = "sent"]]
                       /\ AdmReturn(adm.op, "Sent", RespClass(cause), o)
                  ELSE /\ UNCHANGED orders
                       /\ AdmReturn(adm.op, "Failed", RespClass(cause), o)
       /\ UNCHANGED <<products, carts, cartItems, cartSeq, itemSeq, orderItems, req, started, call, singletons>>

OrderAdmin_confirm_order(o) ==
    /\ adm.pc = "idle"
    /\ Begin
    /\ o \in 1..Len(orders)
    /\ IF orders[o].status = "cancelled"
       THEN AdmReturn("confirm_order", "Cancelled", "none", o)
       ELSE IF AlreadySent(orders[o])
       THEN AdmReturn("confirm_order", "AlreadyDispatched", "none", o)
       ELSE IF orderItems[o].quantity = NoLines
       THEN AdmReturn("confirm_order", "NoItems", "none", o)
       ELSE AdmContinue([IdleAdm EXCEPT !.op = "confirm_order", !.pc = "call",
                                   !.order = o, !.copy = orders[o]])
    /\ UNCHANGED <<products, carts, cartItems, cartSeq, itemSeq, orders,
                   orderItems, consignments, req, call, singletons>>

OrderAdmin_confirm_order_dispatch(cause) ==
    /\ adm.op = "confirm_order"
    /\ AdminDispatch(cause)

OrderAdmin_send_to_steadfast(o) ==
    /\ adm.pc = "idle"
    /\ Begin
    /\ o \in 1..Len(orders)
    /\ IF AlreadySent(orders[o])
       THEN AdmReturn("send_to_steadfast", "AlreadyDispatched", "none", o)
       ELSE AdmContinue([IdleAdm EXCEPT !.op = "send_to_steadfast", !.pc = "call",
                                   !.order = o, !.copy = orders[o]])
    /\ UNCHANGED <<products, carts, cartItems, cartSeq, itemSeq, orders,
                   orderItems, consignments, req, call, singletons>>

OrderAdmin_send_to_steadfast_dispatch(cause) ==
    /\ adm.op = "send_to_steadfast"
    /\ AdminDispatch(cause)

OrderAdmin_discard_order(o) ==
    /\ adm.pc = "idle"
    /\ Begin
    /\ o \in 1..Len(orders)
    /\ IF AlreadySent(orders[o])
       THEN AdmReturn("discard_order", "AlreadyDispatched", "none", o)
       ELSE AdmContinue([IdleAdm EXCEPT !.op = "discard_order", !.pc = "save",
                                   !.order = o, !.copy = orders[o]])
    /\ UNCHANGED <<products, carts, cartItems, cartSeq, itemSeq, orders,
                   orderItems, consignments, req, call, singletons>>

\* (a discard that gives the ordered quantities back to the stock)
OrderAdmin_discard_order_restock ==
    /\ adm.op = "discard_order" /\ adm.pc = "save"
    /\ orders' = [orders EXCEPT ![adm.order] = [adm.copy EXCEPT !.status = "cancelled"]]
    /\ products' = [p \in Products |->
                      [products[p] EXCEPT !.stock = @ + orderItems[adm.order].quantity[p]]]
    /\ AdmReturn("discard_order", "Discarded", "none", adm.order)
    /\ UNCHANGED <<carts, cartItems, cartSeq, itemSeq, orderItems,
                   consignments, req, started, call, singletons>>

\* order.status = 'cancelled'; order.save()
OrderAdmin_discard_order_save ==
    /\ adm.op = "discard_order" /\ adm.pc = "save"
    /\ orders' = [orders EXCEPT ![adm.order] = [adm.copy EXCEPT !.status = "cancelled"]]
    /\ AdmReturn("discard_order", "Discarded", "none", adm.order)
    /\ UNCHANGED <<products, carts, cartItems, cartSeq, itemSeq, orderItems,
                   consignments, req, started, call, singletons>>

\* ------------------------------------------------- the operator's forms
\* What the operator can type into a change form: MinValueValidator(0.01)
\* lets through any positive price; a blank offer_price is NULL (0 here).
RegularPrices == {10, 20}
OfferPrices == {0, 5, 20}

\* ProductAdmin change form, the Pricing fieldset: the submitted
\* regular_price and offer_price are saved on the product; stock and
\* is_active go back as the form showed them (left as they are here).
ProductAdmin_save(p, regular_price, offer_price) ==
    /\ adm.pc = "idle"
    /\ Begin
    /\ products' = [products EXCEPT ![p].regular_price = regular_price,
                                    ![p].offer_price = offer_price]
    /\ products'[p] # products[p]
    /\ AdmReturn("change_product", "Saved", "none", 0)
    /\ UNCHANGED <<carts, cartItems, cartSeq, itemSeq, orders, orderItems,
                   consignments, req, call, singletons>>

\* ProductAdmin changelist, list_editable = ['is_active', 'stock']: the
\* operator ticks or unticks is_active in the row of a product and saves
\* (the stock field is left as it is here).
ProductAdmin_changelist_save(p, is_active) ==
    /\ adm.pc = "idle"
    /\ Begin
    /\ products[p].is_active # is_active
    /\ products' = [products EXCEPT ![p].is_active = is_active]
    /\ AdmReturn("changelist", "Saved", "none", 0)
    /\ UNCHANGED <<carts, cartItems, cartSeq, itemSeq, orders, orderItems,
                   consignments, req, call, singletons>>

\* OrderAdmin change form: get_object loads the order
OrderAdmin_change_view(o) ==
    /\ adm.pc = "idle"
    /\ Begin
    /\ o \in 1..Len(orders)
    /\ AdmContinue([IdleAdm EXCEPT !.op = "change_order", !.pc = "form",
                                   !.order = o, !.copy = orders[o]])
    /\ UNCHANGED <<products, carts, cartItems, cartSeq, itemSeq, orders,
                   orderItems, consignments, req, call, singletons>>

\* save_model writes the loaded order back (status and the Steadfast fields
\* are read-only in the form, total_amount is posted as shown); save_related
\* saves the OrderItemInline formset, whose product, quantity and price
\* fields are editable and whose rows can be added and deleted: the row of
\* product p gets this quantity and price (quantity 0: the row is deleted)
OrderAdmin_change_view_save(p, quantity, price) ==
    /\ adm.op = "change_order" /\ adm.pc = "form"
    /\ orders' = [orders EXCEPT ![adm.order] = adm.copy]
    /\ orderItems' = [orderItems EXCEPT
                         ![adm.order].quantity[p] = quantity,
                         ![adm.order].price[p] = IF quantity = 0 THEN 0 ELSE price]
    /\ AdmReturn("change_order", "Saved", "none", adm.order)
    /\ UNCHANGED <<products, carts, cartItems, cartSeq, itemSeq, consignments,
                   req, started, call, singletons>>

\* ---------------------------------------------------------- specification
Next ==
    \/ \E w \in Workers, s \in Sessions, id \in ProductIds, q \in Quantities :
          CreateOrderView_post_validate(w, s, id, q)
    \/ \E w \in Workers : CreateOrderView_post_commit(w)
    \/ \E w \in Workers, cause \in Causes : CreateOrderView_post_dispatch(w, cause)
    \/ \E w \in Workers, s \in Sessions : CheckoutFromCartView_post_get(w, s)
    \/ \E w \in Workers : CheckoutFromCartView_post_validate(w)
    \/ \E w \in Workers : CheckoutFromCartView_post_total(w)
    \/ \E w \in Workers : CheckoutFromCartView_post_commit(w)
    \/ \E w \in Workers, cause \in Causes : CheckoutFromCartView_post_dispatch(w, cause)
    \/ \E w \in Workers, s \in Sessions, id \in ProductIds, q \in Quantities :
          AddToCartView_post_get(w, s, id, q)
    \/ \E w \in Workers : AddToCartView_post_save(w)
    \/ \E w \in Workers : AddToCartView_post_delete(w)
    \/ \E w \in Workers, s \in Sessions : CartView_delete(w, s)
    \/ \E w \in Workers, s \in Sessions : CartView_get(w, s)
    \/ \E w \in Workers, s \in Sessions, q \in Quantities :
          \E item_id \in 1..(itemSeq + 1) : UpdateCartItemView_put_get(w, s, item_id, q)
    \/ \E w \in Workers : UpdateCartItemView_put_save(w)
    \/ \E w \in Workers, s \in Sessions :
          \E item_id \in 1..(itemSeq + 1) : RemoveCartItemView_delete(w, s, item_id)
    \/ \E w \in Workers, s \in Sessions, id \in ProductIds, q \in Quantities :
          add_to_cart(w, s, id, q)
    \/ \E w \in Workers, s \in Sessions, q \in Quantities :
          \E item_id \in 1..(itemSeq + 1) : update_cart_item(w, s, item_id, q)
    \/ \E w \in Workers, s \in Sessions :
          \E item_id \in 1..(itemSeq + 1) : remove_from_cart(w, s, item_id)
    \/ \E w \in Workers, s \in Sessions : clear_cart(w, s)
    \/ \E o \in OrderIds : OrderAdmin_confirm_order(o)
    \/ \E cause \in Causes : OrderAdmin_confirm_order_dispatch(cause)
    \/ \E o \in OrderIds : OrderAdmin_send_to_steadfast(o)
    \/ \E cause \in Causes : OrderAdmin_send_to_steadfast_dispatch(cause)
    \/ \E o \in OrderIds : OrderAdmin_discard_order(o)
    \/ OrderAdmin_discard_order_save

Spec == Init /\ [][Next]_vars

\* ------------------------------------------------------- the carts alone
\* The cart operations (the views and the functions of utils.py) of two
\* sessions, over every catalogue: a product is active with some stock, or
\* inactive.
Shoppers == 1..NumShoppers

CatalogRows ==
    {[stock |-> n, regular_price |-> 10, offer_price |-> 0, is_active |-> TRUE] :
        n \in 0..InitStock}
    \cup {[stock |-> InitStock, regular_price |-> 10, offer_price |-> 0,
           is_active |-> FALSE]}

CartInit ==
    /\ products \in [Products -> CatalogRows]
    /\ \/ /\ carts = [s \in Shoppers |-> 0]
          /\ cartItems = {}
          /\ cartSeq = 0
          /\ itemSeq = 0
       \/ /\ carts = [s \in Shoppers |-> IF s = 1 THEN 1 ELSE 0]
          /\ cartItems = FullCart(1)
          /\ cartSeq = 1
          /\ itemSeq = NumProducts
    /\ orders = <<>>
    /\ orderItems = <<>>
    /\ consignments = [o \in OrderIds |-> 0]
    /\ req = [w \in Workers |-> IdleReq]
    /\ adm = IdleAdm
    /\ last = Response("none", "none", "none", 0)
    /\ started = 0
    /\ call = NoCall
    /\ singletons = NoSingletons

CartNext ==
    \/ \E w \in Workers, s \in Shoppers, id \in ProductIds, q \in Quantities :
          AddToCartView_post_get(w, s, id, q)
    \/ \E w \in Workers : AddToCartView_post_save(w)
    \/ \E w \in Workers : AddToCartView_post_delete(w)
    \/ \E w \in Workers, s \in Shoppers : CartView_delete(w, s)
    \/ \E w \in Workers, s \in Shoppers : CartView_get(w, s)
    \/ \E w \in Workers, s \in Shoppers, q \in Quantities :
          \E item_id \in 1..(itemSeq + 1) : UpdateCartItemView_put_get(w, s, item_id, q)
    \/ \E w \in Workers : UpdateCartItemView_put_save(w)
    \/ \E w \in Workers, s \in Shoppers :
          \E item_id \in 1..(itemSeq + 1) : RemoveCartItemView_delete(w, s, item_id)
    \/ \E w \in Workers, s \in Shoppers, id \in ProductIds, q \in Quantities :
          add_to_cart(w, s, id, q)
    \/ \E w \in Workers, s \in Shoppers, q \in Quantities :
          \E item_id \in 1..(itemSeq + 1) : update_cart_item(w, s, item_id, q)
    \/ \E w \in Workers, s \in Shoppers :
          \E item_id \in 1..(itemSeq + 1) : remove_from_cart(w, s, item_id)
    \/ \E w \in Workers, s \in Shoppers : clear_cart(w, s)

CartSpec == CartInit /\ [][CartNext]_vars

\* the same together with what the operator does in the change forms
AdminNext ==
    \/ Next
    \/ \E p \in Products, r \in RegularPrices, f \in OfferPrices :
          ProductAdmin_save(p, r, f)
    \/ \E o \in OrderIds : OrderAdmin_change_view(o)
    \/ \E p \in Products, q \in 0..MaxQty, r \in RegularPrices :
          OrderAdmin_change_view_save(p, q, r)

AdminSpec == Init /\ [][AdminNext]_vars


\* ------------------------------------------- placing against the catalogue
\* The two placing views and the cart additions that feed the checkout,
\* while the operator takes products off the catalogue and puts them back.
CatalogNext ==
    \/ \E w \in Workers, s \in Sessions, id \in ProductIds, q \in Quantities :
          CreateOrderView_post_validate(w, s, id, q)
    \/ \E w \in Workers : CreateOrderView_post_commit(w)
    \/ \E w \in Workers, cause \in Causes : CreateOrderView_post_dispatch(w, cause)
    \/ \E w \in Workers, s \in Sessions : CheckoutFromCartView_post_get(w, s)
    \/ \E w \in Workers : CheckoutFromCartView_post_validate(w)
    \/ \E w \in Workers : CheckoutFromCartView_post_total(w)
    \/ \E w \in Workers : CheckoutFromCartView_post_commit(w)
    \/ \E w \in Workers, cause \in Causes : CheckoutFromCartView_post_dispatch(w, cause)
    \/ \E w \in Workers, s \in Sessions, id \in ProductIds, q \in Quantities :
          AddToCartView_post_get(w, s, id, q)
    \/ \E w \in Workers : AddToCartView_post_save(w)
    \/ \E w \in Workers : AddToCartView_post_delete(w)
    \/ \E p \in Products, b \in BOOLEAN : ProductAdmin_changelist_save(p, b)

CatalogSpec == Init /\ [][CatalogNext]_vars


\* ------------------------------------- SteadfastService.create_order alone
\* A phone number is a string, here the sequence of its characters.
DigitChars == {"0", "1", "8"}

\* str.strip(): the whitespace at both ends goes
RECURSIVE strip(_)
strip(s) ==
    IF s = <<>> THEN s
    ELSE IF Head(s) = " " THEN strip(Tail(s))
    ELSE IF s[Len(s)] = " " THEN strip(SubSeq(s, 1, Len(s) - 1))
    ELSE s

\* str.isdigit(): a non-empty string of digits
isdigit(s) == s # <<>> /\ \A i \in 1..Len(s) : s[i] \in DigitChars

startswith(s, prefix) ==
    Len(s) >= Len(prefix) /\ SubSeq(s, 1, Len(prefix)) = prefix

\* normalize_phone_number(phone)
normalize_phone_number(phone) ==
    IF phone = <<>> THEN phone
    ELSE
    LET digits_only == SelectSeq(phone, LAMBDA c : c \in DigitChars)
        local == IF startswith(digits_only, <<"8", "8", "0">>) /\ Len(digits_only) = 13
                 THEN SubSeq(digits_only, 4, Len(digits_only))
                 ELSE digits_only
    IN IF Len(local) = 10 /\ ~startswith(local, <<"0">>) THEN <<"0">> \o local ELSE local

\* (a check of the phone that does not look at its length)
PhoneRefusedUnlessDigits(recipient_phone) ==
    recipient_phone = <<>> \/ ~isdigit(recipient_phone)

\* if not recipient_phone or not recipient_phone.isdigit() or len(...) != 11
PhoneRefused(recipient_phone) ==
    recipient_phone = <<>> \/ ~isdigit(recipient_phone) \/ Len(recipient_phone) # 11

\* the numbers a customer may type: a prefix, then n times the digit 1,
\* with or without a dash after the prefix
PhonePrefixes ==
    {<<>>, <<"+">>, <<"0">>, <<"8", "8">>, <<"8", "8", "0">>, <<"+", "8", "8", "0">>,
     <<" ", "0">>}

Phones ==
    {pre \o sep \o [i \in 1..n |-> "1"] :
        pre \in PhonePrefixes, sep \in {<<>>, <<"-">>}, n \in 0..MaxDigits}

\* what the provider can answer to a request that was posted
ProviderCauses == Causes \ {"disabled", "invalid_phone", "malformed"}

\* create_order(..., recipient_phone, ...) with the integration configured
\* or not: the enabled test, the phone normalised and checked, then the POST
\* with the normalised phone in the payload and the provider's answer
SteadfastService_create_order(enabled, recipient_phone, cause) ==
    /\ IF ~enabled
       THEN call' = [recipient_phone |-> recipient_phone, posted |-> FALSE,
                     payload |-> <<>>, status |-> create_order("disabled", 1).status]
       ELSE LET phone == normalize_phone_number(strip(recipient_phone))
            IN IF PhoneRefused(phone)
               THEN call' = [recipient_phone |-> recipient_phone, posted |-> FALSE,
                             payload |-> <<>>,
                             status |-> create_order("invalid_phone", 1).status]
               ELSE call' = [recipient_phone |-> recipient_phone, posted |-> TRUE,
                             payload |-> phone,
                             status |-> create_order(cause, 1).status]
    /\ UNCHANGED <<products, carts, cartItems, cartSeq, itemSeq, orders, orderItems,
                   consignments, req, adm, last, started, singletons>>

AdapterNext ==
    \E enabled \in BOOLEAN, recipient_phone \in Phones, cause \in ProviderCauses :
        SteadfastService_create_order(enabled, recipient_phone, cause)

AdapterSpec == Init /\ [][AdapterNext]_vars


\* -------------------------------------------- Notification.save, HeroImage.save
\* Model.objects.filter(is_active=True).exclude(pk=self.pk).update(is_active=False)
DeactivateOthers(rows, pk) ==
    [k \in Pks |-> IF k # pk /\ rows[k] = "active" THEN "inactive" ELSE rows[k]]

\* save() of an instance of model m by worker w: a new instance (pk 0, while
\* the table has room) or one that was loaded from its row, to be saved with
\* this is_active.  When is_active is set the first query deactivates the
\* other rows; super().save() is the next query.
Singleton_save(m, w, pk, is_active) ==
    LET t == singletons[m]
    IN /\ t.saving[w].pc = "idle"
       /\ IF pk = 0 THEN \E k \in Pks : t.rows[k] = "absent"
          ELSE pk \in Pks /\ t.rows[pk] # "absent"
       /\ singletons' = [singletons EXCEPT
             ![m].rows = IF is_active THEN DeactivateOthers(t.rows, pk) ELSE t.rows,
             ![m].saving[w] = [pc |-> "super", pk |-> pk, is_active |-> is_active]]
       /\ UNCHANGED <<products, carts, cartItems, cartSeq, itemSeq, orders, orderItems,
                      consignments, req, adm, last, started, call>>

\* super().save(): the INSERT of a new row under the next id, or the UPDATE
\* of the instance's row
Singleton_super_save(m, w) ==
    LET t == singletons[m]
        s == t.saving[w]
        pk == IF s.pk # 0 THEN s.pk
              ELSE CHOOSE k \in Pks :
                      t.rows[k] = "absent" /\ \A j \in Pks : j < k => t.rows[j] # "absent"
    IN /\ s.pc = "super"
       /\ s.pk = 0 => \E k \in Pks : t.rows[k] = "absent"
       /\ singletons' = [singletons EXCEPT
             ![m].rows[pk] = IF s.is_active THEN "active" ELSE "inactive",
             ![m].saving[w] = IdleSave]
       /\ UNCHANGED <<products, carts, cartItems, cartSeq, itemSeq, orders, orderItems,
                      consignments, req, adm, last, started, call>>

Notification_save(w, pk, is_active) == Singleton_save("Notification", w, pk, is_active)

Notification_super_save(w) == Singleton_super_save("Notification", w)

HeroImage_save(w, pk, is_active) == Singleton_save("HeroImage", w, pk, is_active)

HeroImage_super_save(w) == Singleton_super_save("HeroImage", w)

SingletonNext ==
    \/ \E w \in Workers, pk \in 0..NumRows, is_active \in BOOLEAN :
          Notification_save(w, pk, is_active)
    \/ \E w \in Workers : Notification_super_save(w)
    \/ \E w \in Workers, pk \in 0..NumRows, is_active \in BOOLEAN :
          HeroImage_save(w, pk, is_active)
    \/ \E w \in Workers : HeroImage_super_save(w)

SingletonSpec == Init /\ [][SingletonNext]_vars


\* ===================================================================
\* Properties
\* ===================================================================
PlacingOps == {"create", "checkout"}
AdminDispatchOps == {"confirm_order", "send_to_steadfast"}

\* quantity of product p committed in the OrderItems of all orders
Committed(p) ==
    SumOver([o \in 1..Len(orderItems) |-> orderItems[o].quantity[p]], 1..Len(orderItems))

\* the step begins a request or action and answers it at once
ImmediateReturn == started' # started /\ req' = req /\ adm' = adm

\* the step is worker w answering a request it had begun earlier
WorkerReturn(w) == req[w].pc # "idle" /\ req'[w].pc = "idle"

\* the step is a step of worker w inside a request
WorkerStep(w) == req[w].pc # "idle" /\ req'[w] # req[w]

\* C1: no overselling.  In every reachable state, whatever the interleaving
\* of direct orders, cart checkouts and cart additions, the quantity of each
\* product committed in OrderItems is at most the product's initial stock,
\* and the product's stock is that initial stock less the committed
\* quantity, hence never negative.
C1_NoOverselling ==
    \A p \in Products :
        /\ Committed(p) <= InitStock
        /\ products[p].stock = InitStock - Committed(p)
        /\ products[p].stock >= 0

\* two placements raced for the last units of a product: both passed the
\* stock validation, one committed, the other was stopped at its commit
C1_Witness ==
    /\ last.op \in PlacingOps
    /\ last.result = "IntegrityError"
    /\ \E p \in Products : products[p].stock = 0 /\ Committed(p) = InitStock

\* a placement that was turned down for lack of stock
RefusedForStock ==
    /\ last.op \in PlacingOps
    /\ last.result \in {"OutOfStock", "InsufficientStock", "IntegrityError"}

\* C2: first committer wins.  Concurrent placements never commit more than
\* the stock holds, and every placement that is turned down for lack of
\* stock is answered with the InsufficientStock failure (the 400 responses
\* naming the available stock), never with another error.
C2_FirstCommitterWins ==
    /\ \A p \in Products : Committed(p) <= InitStock
    /\ RefusedForStock => last.result \in {"OutOfStock", "InsufficientStock"}

\* C3: all-or-nothing abort.  A placement step that finds a line quantity
\* above the product's stock writes nothing: the validation steps and the
\* step that turns the placement down leave every Product, Cart, CartItem,
\* Order and OrderItem row as it was, and a commit attempted while a line
\* exceeds the current stock is turned down.
C3_AllOrNothingAbort ==
    [][ /\ (RefusedForStock' /\ (ImmediateReturn \/ \E w \in Workers : WorkerReturn(w)))
            => UNCHANGED db
        /\ \A w \in Workers :
             /\ (req[w].op \in PlacingOps /\ req[w].pc \in {"validate", "total"}
                    /\ WorkerStep(w)) => UNCHANGED db
             /\ (req[w].op \in PlacingOps /\ req[w].pc = "commit" /\ WorkerStep(w)
                    /\ \E p \in Products : req[w].lines[p] > products[p].stock)
                  => (UNCHANGED db /\ last'.result = "IntegrityError")
      ]_vars

\* a checkout of a two-line cart was turned down at its commit because one
\* product had been sold out meanwhile; the other line would have fitted,
\* and its stock, the cart and its rows are untouched
C3_Witness ==
    /\ last.op = "checkout" /\ last.result = "IntegrityError"
    /\ carts[1] = 1 /\ ItemsOf(1) = FullCart(1)
    /\ \E p, q \in Products :
          /\ products[p].stock = 0
          /\ products[q].stock = InitStock

\* C4: a successful placement is one atomic commit.  The step that adds an
\* Order row adds exactly one, with status pending and no fulfillment
\* field, adds its OrderItems (one per candidate line, with the line's
\* quantity and unit price) and lowers every ordered product's stock by
\* exactly the ordered quantity; no other step changes stock or OrderItems;
\* and a direct order's total is unit price x quantity.
C4_AtomicCommit ==
    [][ /\ (Len(orders') # Len(orders) \/ orderItems' # orderItems
               \/ \E p \in Products : products'[p].stock # products[p].stock)
           => \E w \in Workers :
                /\ req[w].op \in PlacingOps /\ req[w].pc = "commit"
                /\ orders' = Append(orders, NewOrder(req[w].session, req[w].total))
                /\ orders'[Len(orders')].status = "pending"
                /\ orderItems' = Append(orderItems,
                                        [quantity |-> req[w].lines, price |-> req[w].unit])
                /\ \A p \in Products :
                      products'[p] = [products[p] EXCEPT
                                         !.stock = products[p].stock - req[w].lines[p]]
                /\ req[w].op = "create" =>
                      req[w].total = SumOver([p \in Products |->
                                         req[w].unit[p] * req[w].lines[p]], Products)
      ]_vars

\* the spec's scenario: quantity 2 at unit price 10 against stock 2 is
\* committed, the stock is 0, the total 20, the status pending
C4_Witness ==
    \E p \in Products :
        /\ Len(orders) = 1 /\ orders[1].status = "pending"
        /\ orders[1].total_amount = 20
        /\ orderItems[1].quantity[p] = 2 /\ orderItems[1].price[p] = 10
        /\ products[p].stock = 0


\* the step is a dispatch (the courier call and what follows it) answering
DispatchReturn ==
    \/ \E w \in Workers : req[w].pc = "dispatch" /\ WorkerReturn(w)
    \/ adm.pc = "call" /\ adm'.pc = "idle"

\* the courier's answer was a failure: the adapter was disabled or refused
\* the phone, or the call failed, or the provider turned the order down
CourierFailed(response) == response.resp \in {"skipped", "failed"}

\* C5: courier failure never invalidates a committed order.  When the
\* dispatch chained to a placement fails, the step changes no Order,
\* OrderItem or Product row, the order placed is still there with its
\* items, and the request answers 201 with the order.
C5_FailedDispatchKeepsOrder ==
    [][ \A w \in Workers :
          (req[w].op \in PlacingOps /\ req[w].pc = "dispatch" /\ WorkerReturn(w)
              /\ CourierFailed(last'))
          => /\ last'.op = req[w].op /\ last'.result = "Created"
             /\ orders' = orders /\ orderItems' = orderItems /\ products' = products
             /\ req[w].order \in 1..Len(orders')
             /\ orderItems'[req[w].order].quantity = req[w].lines
      ]_vars

\* a checkout answered 201 although the provider call failed; its order is
\* committed, pending, and the stock is lowered
C5_Witness ==
    /\ last.op = "checkout" /\ last.result = "Created" /\ last.resp = "failed"
    /\ Len(orders) = 1 /\ orders[1].status = "pending"
    /\ \A p \in Products : orderItems[1].quantity[p] = 1 /\ products[p].stock = InitStock - 1

\* the step begins one of the admin actions ops on order o
AdminBegins(ops, o) ==
    /\ adm.pc = "idle" /\ started' # started /\ req' = req
    /\ \/ adm' = adm /\ last'.op \in ops /\ last'.order = o
       \/ adm'.pc # "idle" /\ adm'.op \in ops /\ adm'.order = o

\* C6: idempotence by refusal.  confirm_order or send_to_steadfast begun
\* on an order whose stored consignment id is set is refused as already
\* dispatched: it never gets to the courier call and it changes neither the
\* order nor what the courier holds; so an action that is at its courier
\* call loaded an order without consignment id.
C6_DispatchedIsRefused ==
    /\ [](adm.pc = "call" => ~AlreadySent(adm.copy))
    /\ [][ \A o \in OrderIds :
             (AdminBegins(AdminDispatchOps, o) /\ o <= Len(orders)
                 /\ orders[o].steadfast_consignment_id # 0)
             => /\ adm'.pc = "idle"
                /\ last'.result = "AlreadyDispatched"
                /\ orders' = orders /\ consignments' = consignments
         ]_vars

\* an order the courier accepted once was put to an admin dispatch again:
\* refused, and the courier still holds one consignment for it
C6_Witness ==
    /\ last.op \in AdminDispatchOps /\ last.result = "AlreadyDispatched"
    /\ last.order \in 1..Len(orders)
    /\ orders[last.order].steadfast_consignment_id # 0
    /\ consignments[last.order] = 1

\* C7: on courier failure the dispatch, at every call site, leaves every
\* Order row as it was (fulfillment fields, status, existence).
C7_FailedDispatchLeavesOrder ==
    [][ (DispatchReturn /\ CourierFailed(last')) => orders' = orders ]_vars

\* an admin dispatch failed at the provider; the order is still pending
\* with no fulfillment field
C7_Witness ==
    /\ last.op \in AdminDispatchOps /\ last.result = "Failed" /\ last.resp = "failed"
    /\ last.order \in 1..Len(orders)
    /\ orders[last.order] = NewOrder(orders[last.order].session_key,
                                    orders[last.order].total_amount)

\* C8: on courier success every dispatch call site leaves the order with
\* status sent.
C8_SuccessMeansSent ==
    [][ /\ \A w \in Workers :
             (req[w].pc = "dispatch" /\ WorkerReturn(w) /\ last'.resp = "accepted")
             => orders'[req[w].order].status = "sent"
        /\ (adm.pc = "call" /\ adm'.pc = "idle" /\ last'.resp = "accepted")
             => orders'[adm.order].status = "sent"
      ]_vars

\* C9: fulfillment fields are all-or-nothing.  In every reachable state
\* every order has its consignment id, tracking code and courier status
\* either all unset, or all set from the same courier response.
C9_FulfillmentAllOrNothing ==
    \A o \in 1..Len(orders) :
        \/ /\ orders[o].steadfast_consignment_id = 0
           /\ orders[o].steadfast_tracking_code = 0
           /\ orders[o].steadfast_status = 0
        \/ /\ orders[o].steadfast_consignment_id # 0
           /\ orders[o].steadfast_tracking_code = orders[o].steadfast_consignment_id
           /\ orders[o].steadfast_status = orders[o].steadfast_consignment_id

\* C10: in every reachable state an order with status sent has its
\* consignment id set.
C10_SentHasConsignment ==
    \A o \in 1..Len(orders) :
        orders[o].status = "sent" => orders[o].steadfast_consignment_id # 0

\* the step moves order o to cancelled
Cancels(o) == orders[o].status # "cancelled" /\ orders'[o].status = "cancelled"

\* C11: cancellation rule.  An order becomes cancelled only from pending
\* and only while it has no consignment id, and no reachable state has an
\* order that is cancelled and has a consignment id.
C11_CancelOnlyUndispatchedPending ==
    /\ [](\A o \in 1..Len(orders) :
            ~(orders[o].status = "cancelled" /\ orders[o].steadfast_consignment_id # 0))
    /\ [][ \A o \in 1..Len(orders) :
             Cancels(o) => /\ orders[o].status = "pending"
                           /\ orders[o].steadfast_consignment_id = 0 ]_vars

\* C12: OrderItems are fixed at creation.  No step adds, removes or alters
\* an OrderItem of an order that exists.
C12_OrderItemsFixed ==
    [][ \A o \in 1..Len(orderItems) : orderItems'[o] = orderItems[o] ]_vars

\* the step commits a new order
Commits == Len(orders') = Len(orders) + 1

\* the step changes the regular or offer price of a product
PriceChanges ==
    \E p \in Products : \/ products'[p].regular_price # products[p].regular_price
                        \/ products'[p].offer_price # products[p].offer_price

\* the unit price of every line of the order being committed is the
\* product's current price as the step finds it
SnapshotAtCreation ==
    Commits => \A p \in Products :
                  orderItems'[Len(orders')].quantity[p] > 0
                  => orderItems'[Len(orders')].price[p] = current_price(products[p])

\* a change of a product's prices leaves the unit price of every OrderItem
SnapshotKept ==
    PriceChanges => \A o \in 1..Len(orderItems) : orderItems'[o].price = orderItems[o].price

PricesDirectOrder(w) ==
    req[w].pc = "idle" /\ req'[w].op = "create" /\ req'[w].pc = "commit"

NewItemsTotal ==
    SumOver([p \in Products |-> orderItems'[Len(orders')].price[p]
                                  * orderItems'[Len(orders')].quantity[p]], Products)

\* C15: the total_amount stored with a new order (direct order or cart
\* checkout) is the sum over its OrderItems of unit price x quantity.
C15_TotalIsSumOfLines ==
    [][ Commits => orders'[Len(orders')].total_amount = NewItemsTotal ]_vars

\* quantity of product id in the cart of session s (0: none, or no cart)
InCart(s, id) ==
    IF carts[s] = 0 \/ id \notin Products THEN 0 ELSE LinesOf(ItemsOf(carts[s]))[id]

StockRefusals == {"OutOfStock", "InsufficientStock"}

\* the row the step adds to the cart of session s: product id, quantity q
AddsRow(s, id, q) ==
    \E i \in cartItems' \ cartItems :
        /\ cartItems' = cartItems \cup {i}
        /\ i.cart = carts'[s] /\ i.product = id /\ i.quantity = q

\* what addItem(cart of s, id, q) is to do, said of the step that runs
\* AddToCartView.post up to its get_or_create and stock checks
AddItemView(w, s, id, q) ==
    IF id \notin Products \/ ~products[id].is_active
    THEN last'.result = "NotFound" /\ cartItems' = cartItems
    ELSE IF products[id].stock < InCart(s, id) + q
    THEN \/ /\ req'[w].pc = "idle" /\ last'.result \in StockRefusals
            /\ cartItems' = cartItems
         \/ /\ req'[w].pc = "delete" /\ InCart(s, id) = 0
            /\ AddsRow(s, id, q) /\ req'[w].item \notin {i.id : i \in cartItems}
    ELSE IF InCart(s, id) = 0
    THEN req'[w].pc = "idle" /\ last'.result = "Added" /\ AddsRow(s, id, q)
    ELSE /\ req'[w].pc = "save" /\ cartItems' = cartItems
         /\ req'[w].lines[id] = InCart(s, id) + q
         /\ \E i \in ItemsOf(carts[s]) : i.product = id /\ i.id = req'[w].item

\* the same of a call of add_to_cart of utils.py
AddItemCall(s, id, q) ==
    IF id \notin Products \/ ~products[id].is_active
    THEN last'.result = "NotFound" /\ cartItems' = cartItems
    ELSE IF products[id].stock < InCart(s, id) + q
    THEN last'.result \in StockRefusals /\ cartItems' = cartItems
    ELSE IF InCart(s, id) = 0
    THEN last'.result = "Added" /\ AddsRow(s, id, q)
    ELSE /\ last'.result = "Added"
         /\ \E i \in ItemsOf(carts[s]) :
               /\ i.product = id
               /\ cartItems' = (cartItems \ {i})
                                 \cup {[i EXCEPT !.quantity = InCart(s, id) + q]}

\* C16: addItem(cart, product, q) fails with NotFound when the product is
\* missing or inactive, fails for stock when stock < quantity in the cart
\* + q, both without changing the cart (the view takes back the row it made
\* before its check, answering InsufficientStock), and otherwise creates the
\* CartItem with quantity q or sets the existing one to its quantity + q.
C16_AddItem ==
    [][ /\ \A w \in Workers, s \in DOMAIN carts, id \in ProductIds, q \in Quantities :
             /\ AddToCartView_post_get(w, s, id, q) => AddItemView(w, s, id, q)
             /\ add_to_cart(w, s, id, q) => AddItemCall(s, id, q)
        /\ \A w \in Workers :
             /\ AddToCartView_post_delete(w)
                  => /\ last'.result = "InsufficientStock"
                     /\ cartItems' = {i \in cartItems : i.id # req[w].item}
             /\ (AddToCartView_post_save(w) /\ \E i \in cartItems : i.id = req[w].item)
                  => /\ last'.result = "Added"
                     /\ \E i \in cartItems :
                           /\ i.id = req[w].item
                           /\ cartItems' = (cartItems \ {i}) \cup
                                 {[i EXCEPT !.quantity = req[w].lines[i.product]]}
      ]_vars

\* a product with stock 2 is in the cart once; adding 2 more was refused
\* and the item is as it was
C16_Witness ==
    /\ last.op \in {"add", "add_to_cart"} /\ last.result = "InsufficientStock"
    /\ started = 1
    /\ \E i \in cartItems :
          /\ i.quantity = 1 /\ products[i.product].stock = InitStock
          /\ products[i.product].is_active

\* the step changes the stock of a product
StockChanges == \E p \in Products : products'[p].stock # products[p].stock

\* the step is one of a cart operation, a dispatch or a cancellation
CartOps ==
    {"add", "update", "remove", "clear", "view",
     "add_to_cart", "update_cart_item", "remove_from_cart", "clear_cart"}

CartStep ==
    \/ \E w \in Workers : req[w].op \in CartOps /\ WorkerStep(w)
    \/ ImmediateReturn /\ last'.op \in CartOps
    \/ \E w \in Workers : req[w].pc = "idle" /\ req'[w].op \in CartOps

CancelStep ==
    \/ adm.op = "discard_order" /\ adm' # adm
    \/ adm.pc = "idle" /\ adm'.op = "discard_order"
    \/ ImmediateReturn /\ last'.op = "discard_order"

C18_CartWellFormed ==
    /\ \A i, j \in cartItems : (i.cart = j.cart /\ i.product = j.product) => i = j
    /\ \A i \in cartItems : i.quantity >= 1

\* two requests of one session are adding to the same item of its cart at
\* the same time
C18_Witness ==
    \E s \in DOMAIN carts, p \in Products :
        /\ \A w \in Workers :
              /\ req[w].op = "add" /\ req[w].pc = "save"
              /\ req[w].session = s /\ req[w].lines[p] > 0
        /\ InCart(s, p) >= 1

\* the rows with id item_id in the cart of session s
ItemIn(s, item_id) ==
    IF carts[s] = 0 THEN {} ELSE {i \in ItemsOf(carts[s]) : i.id = item_id}

\* what updateItemQuantity(cart of s, item_id, q) is to do, said of the step
\* of UpdateCartItemView.put up to its stock check (save: the request goes
\* on to its save) and of a call of update_cart_item (save: the row has
\* quantity q)
UpdateItem(s, item_id, q, save) ==
    IF ItemIn(s, item_id) = {}
    THEN last'.result = "NotFound" /\ cartItems' = cartItems
    ELSE LET i == CHOOSE r \in ItemIn(s, item_id) : TRUE
         IN IF q > products[i.product].stock
            THEN last'.result = "InsufficientStock" /\ cartItems' = cartItems
            ELSE save[i]

\* C19: updateItemQuantity(cart, item, q) fails with NotFound when the
\* item is not in this cart (an item of another session's cart included),
\* fails with InsufficientStock when q exceeds the product's stock, both
\* leaving every item as it was, and otherwise sets the item's quantity to
\* exactly q.
C19_UpdateItem ==
    [][ /\ \A w \in Workers, s \in DOMAIN carts, q \in Quantities :
           \A item_id \in 1..(itemSeq + 1) :
             /\ UpdateCartItemView_put_get(w, s, item_id, q)
                  => UpdateItem(s, item_id, q,
                        [i \in cartItems |->
                            /\ req'[w].pc = "save" /\ cartItems' = cartItems
                            /\ req'[w].item = item_id /\ req'[w].lines[i.product] = q])
             /\ update_cart_item(w, s, item_id, q)
                  => UpdateItem(s, item_id, q,
                        [i \in cartItems |->
                            /\ last'.result = "Updated"
                            /\ cartItems' = (cartItems \ {i})
                                              \cup {[i EXCEPT !.quantity = q]}])
        /\ \A w \in Workers :
             (UpdateCartItemView_put_save(w) /\ \E i \in cartItems : i.id = req[w].item)
               => /\ last'.result = "Updated"
                  /\ \E i \in cartItems :
                        /\ i.id = req[w].item
                        /\ cartItems' = (cartItems \ {i}) \cup
                              {[i EXCEPT !.quantity = req[w].lines[i.product]]}
      ]_vars

\* session 2 has a cart of its own, empty; the items are in the cart of
\* session 1, and an update was answered NotFound leaving them as they were
C19_Witness ==
    /\ last.op \in {"update", "update_cart_item"} /\ last.result = "NotFound"
    /\ carts[1] # 0 /\ NumShoppers \in DOMAIN carts /\ carts[NumShoppers] # 0
    /\ ItemsOf(carts[NumShoppers]) = {}
    /\ cartItems = FullCart(carts[1])
    /\ started = 2

\* what removeItem(cart of s, item_id) is to do: a missing item is answered
\* with the no-op result and nothing is written, a present one is deleted
\* and no other; either way the item is not in the cart afterwards, so a
\* second removal is the no-op
RemoveItem(s, item_id, noop, done) ==
    /\ IF ItemIn(s, item_id) = {}
       THEN last'.result = noop /\ cartItems' = cartItems
       ELSE last'.result = done /\ cartItems' = cartItems \ ItemIn(s, item_id)
    /\ carts' = carts
    /\ \A i \in cartItems' : ~(i.cart = carts'[s] /\ i.id = item_id)

\* C20: removeItem on an item that is not in the cart returns the
\* not-found / no-op result (False from remove_from_cart, not found from the
\* view), never an error, and leaves the cart unchanged; removing an item
\* leaves a cart on which removing it again is that no-op.
C20_RemoveIdempotent ==
    [][ \A w \in Workers, s \in DOMAIN carts : \A item_id \in 1..(itemSeq + 1) :
          /\ RemoveCartItemView_delete(w, s, item_id)
               => RemoveItem(s, item_id, "NotFound", "Removed")
          /\ remove_from_cart(w, s, item_id)
               => RemoveItem(s, item_id, "False", "True")
      ]_vars

\* the second request was a removal answered with the no-op result, on the
\* cart the first request had removed one item from
C20_Witness ==
    /\ last.op \in {"remove", "remove_from_cart"}
    /\ last.result \in {"NotFound", "False"}
    /\ started = 2 /\ itemSeq = NumProducts
    /\ carts[1] # 0
    /\ cartItems \subseteq FullCart(carts[1])
    /\ Cardinality(cartItems) = NumProducts - 1

\* the step is worker w finishing a checkout with 201: the order stands and
\* the cart is cleared
CheckoutCreated(w) ==
    /\ req[w].op = "checkout" /\ req[w].pc = "dispatch"
    /\ WorkerReturn(w) /\ last'.result = "Created"

\* C21: cart lifecycle.  The step that ends a successful checkout leaves
\* neither the Cart row nor any CartItem of it, and every CartItem it deletes
\* has its product among the OrderItems of the order created, also an item
\* that was added while the checkout was running.
C21_CartLifecycle ==
    [][ \A w \in Workers : CheckoutCreated(w) =>
          /\ \A s \in DOMAIN carts : carts'[s] # req[w].cart
          /\ \A i \in cartItems' : i.cart # req[w].cart
          /\ \A i \in cartItems \ cartItems' :
                orderItems[req[w].order].quantity[i.product] > 0
      ]_vars

\* the step is worker w passing the validation of a placement: of a direct
\* order in the step that takes the request, of a checkout in its loop
PassesValidation(w) ==
    \/ req[w].pc = "idle" /\ req'[w].op = "create" /\ req'[w].pc = "commit"
    \/ req[w].op = "checkout" /\ req[w].pc = "validate" /\ req'[w].pc = "total"

\* C22: every line is validated before commit.  A placement (direct order
\* or cart checkout) passes validation only with every line's product active
\* and its stock above 0 and at least the line's quantity, as the validating
\* step finds them; and the lines committed are the lines validated.
C22_ValidatedBeforeCommit ==
    [][ \A w \in Workers :
          /\ PassesValidation(w) =>
                \A p \in Products : req'[w].lines[p] > 0 =>
                    /\ products[p].is_active
                    /\ products[p].stock > 0
                    /\ products[p].stock >= req'[w].lines[p]
          /\ (req[w].op \in PlacingOps /\ req[w].pc = "total" /\ WorkerStep(w))
                => req'[w].lines = req[w].lines
          /\ (req[w].op \in PlacingOps /\ req[w].pc = "commit" /\ WorkerStep(w)
                 /\ Commits)
                => orderItems'[Len(orders')].quantity = req[w].lines
      ]_vars

\* C23: orders are never empty.  In every reachable state every Order has
\* at least one OrderItem (each of quantity 1 or more); a checkout begun on
\* a missing or empty cart is answered as an empty cart without a new Order;
\* and no step commits an Order without a line, whatever happened to the
\* cart since the checkout found it non-empty.
C23_OrdersNonEmpty ==
    /\ [](\A o \in 1..Len(orders) :
             /\ \E p \in Products : orderItems[o].quantity[p] >= 1
             /\ \A p \in Products : orderItems[o].quantity[p] >= 0)
    /\ [][ /\ \A w \in Workers, s \in DOMAIN carts :
                (CheckoutFromCartView_post_get(w, s)
                    /\ (carts[s] = 0 \/ ItemsOf(carts[s]) = {}))
                => last'.result = "CartEmpty" /\ orders' = orders
           /\ Commits => orderItems'[Len(orders')].quantity # NoLines
         ]_vars

\* C24: retry after failure.  confirm_order or send_to_steadfast begun on
\* an order of which the courier has accepted no dispatch yet (every earlier
\* attempt failed), not cancelled and with items, is not refused: it goes to
\* its courier call; and when the courier accepts that call, it holds one
\* more consignment and the order has status sent and its consignment id,
\* tracking code and courier status set.
C24_RetryAfterFailure ==
    [][ /\ \A o \in OrderIds :
             (AdminBegins(AdminDispatchOps, o) /\ o <= Len(orders)
                 /\ consignments[o] = 0
                 /\ orders[o].status # "cancelled"
                 /\ orderItems[o].quantity # NoLines)
             => adm'.pc = "call" /\ adm'.order = o
        /\ (adm.pc = "call" /\ adm'.pc = "idle" /\ last'.resp = "accepted")
             => /\ consignments'[adm.order] = consignments[adm.order] + 1
                /\ orders'[adm.order].status = "sent"
                /\ orders'[adm.order].steadfast_consignment_id # 0
                /\ orders'[adm.order].steadfast_tracking_code # 0
                /\ orders'[adm.order].steadfast_status # 0
      ]_vars

\* C25: the courier adapter is never fatal to its caller.  Whatever the
\* provider does, create_order returns a dict its caller can test: no
\* request or admin action ends with the adapter having raised.
C25_AdapterNeverFatal ==
    /\ last.resp \in {"none", "skipped", "failed", "accepted"}
    /\ last.result # "ServerError"

\* the digits of a string, in their order
DigitsOf(s) == SelectSeq(s, LAMBDA c : c \in DigitChars)

C27_NeverDoubleSent ==
    /\ [](\A o \in OrderIds : consignments[o] <= 1)
    /\ [][ \A o \in OrderIds :
             consignments'[o] # consignments[o] => consignments[o] = 0 ]_vars

\* the consignment id, tracking code and courier status of an order row
Fulfillment(order) ==
    <<order.steadfast_consignment_id, order.steadfast_tracking_code,
      order.steadfast_status>>

\* C28: fulfillment fields are write-once.  No step changes the consignment
\* id, tracking code or courier status of an order whose consignment id is
\* set, whether it is a discard, another dispatch or the save of a copy of
\* the order loaded earlier.
C28_FulfillmentWriteOnce ==
    [][ \A o \in 1..Len(orders) :
          orders[o].steadfast_consignment_id # 0
          => Fulfillment(orders'[o]) = Fulfillment(orders[o]) ]_vars

\* C29: a cancelled order is never dispatched.  confirm_order or
\* send_to_steadfast begun on a cancelled order is refused without getting
\* to its courier call, no admin action makes a courier call for an order
\* that is cancelled, and a cancelled order stays cancelled.
C29_CancelledNeverDispatched ==
    [][ \A o \in 1..Len(orders) :
          orders[o].status = "cancelled" =>
            /\ orders'[o].status = "cancelled"
            /\ AdminBegins(AdminDispatchOps, o) => adm'.pc = "idle"
            /\ (adm.pc = "call" /\ adm.order = o /\ adm'.pc = "idle")
                  => consignments' = consignments /\ last'.resp = "skipped"
      ]_vars

\* the rows of model m that are active
ActiveRows(m) == {pk \in Pks : singletons[m].rows[pk] = "active"}

\* C30: active singletons.  In every reachable state, whatever the
\* interleaving of saves, at most one Notification is active and at most
\* one HeroImage is active.
C30_AtMostOneActive ==
    \A m \in SingletonModels : Cardinality(ActiveRows(m)) <= 1

====
